---- MODULE Spec2Model ----
(***************************************************************************)
(* VtpBackend (src/src/vtp/web/api/backend.py): the web-api backend that   *)
(* routes six entry points either to static mock data or to VoteTracker+   *)
(* operations run against a guid workspace.                                *)
(*                                                                         *)
(* The entry points are plain static methods with no lock, so a request    *)
(* handler (a thread of the web server) is modelled as a process that      *)
(* walks through one call at a time in three steps: the call up to the     *)
(* operation being built (the mode branch and, in mock mode, the whole     *)
(* body; in live mode the workspace lookup and the constructor), the run   *)
(* of the operation against the backing store (with the payload subscripts *)
(* that precede it), and the return of the result to the caller.  Only the *)
(* lookup and the run touch state that other handlers share.               *)
(*                                                                         *)
(* vtp.core.common.Common and the vtp.ops operations are imported, not     *)
(* defined, by backend.py; they are modelled from the collaborator         *)
(* contracts of spec.md sections 4.2 and 6.                                *)
(***************************************************************************)
EXTENDS Integers, Sequences, FiniteSets, TLC

VARIABLES
    _MOCK_MODE,   \* VtpBackend._MOCK_MODE, the class attribute read by the entry points
    workspaces,   \* the backing store: guid -> the state of that guid's workspace
    thread,       \* request handler -> the call it is executing
    ncalls,       \* calls begun so far (bounded by MaxCalls)
    issued,       \* guids that a get_vote_store_id call has returned to its caller
    blankSeen,    \* vote_store_id -> blank ballots handed out since the last cast for it
    servedBy      \* vote_store_id -> the mode branches that have served a call for it

vars == <<_MOCK_MODE, workspaces, thread, ncalls, issued, blankSeen, servedBy>>

\* ------------------------------------------------------------------ bounds

MaxThreads == 2
MaxCalls == 3
MaxSessions == 2

Threads == 1..MaxThreads

\* ------------------------------------------- backend demo constants (51-68)

_MOCK_BLANK_BALLOT == "mock-data/blank-ballot.json"
_MOCK_CAST_BALLOT == "mock-data/cast-ballot.json"
_MOCK_BALLOT_CHECK == "mock-data/receipts.26.csv"
_MOCK_VOTER_INDEX == 26
_MOCK_GUID == "01d963fd74100ee3f36428740a8efd8afd781839"
_MOCK_VERIFY_BALLOT_RECEIPT_LOG == "Hello World"
_MOCK_TALLY_CONTESTS_LOG == "Good Morning"
_VERBOSITY == 3
_ADDRESS == "123, Main Street, Concord, Massachusetts"

\* ------------------------------------------------------------------ values

None == [none |-> TRUE]
EmptyDict == [k \in {} |-> TRUE]

Return(v) == [kind |-> "return", val |-> v]
Raise(e) == [kind |-> "raise", exc |-> e]

\* The guids the provisioning operation hands out, in the order it does.
GuidNames == <<"a1f0", "b2e1", "c3d2", "d4c3", "e5b4">>
Guids == {GuidNames[i] : i \in 1..MaxSessions}

\* What a caller may pass as vote_store_id: any guid, issued or not, and the
\* made-up mock guid, which names no workspace.
SessionIds == Guids \cup {_MOCK_GUID}

\* cast_ballot's payload: a marked ballot (a dict).
CastBallots == {[selection |-> "yes"], [selection |-> "no"]}

\* verify_ballot_check's payload: the dict read with ["ballot-check"] and
\* ["vote-index"]; a one-row receipt with its index, and a dict without the
\* index.
VerifyPayloads ==
    { ("ballot-check" :> <<[selection |-> "yes"]>> @@ "vote-index" :> 0),
      ("ballot-check" :> <<[selection |-> "yes"]>>) }

\* tally_election_check's payload: the dict read with ["verbosity"],
\* ["contest-uids"] and ["track-contests"]; complete, and without the verbosity.
TallyPayloads ==
    { ("verbosity" :> 3 @@ "contest-uids" :> "0001" @@ "track-contests" :> FALSE),
      ("contest-uids" :> "0001" @@ "track-contests" :> FALSE) }

\* ------------------------------------------------------- mock data fixtures

\* The fixture files, as the text the mock branches read: the JSON files as
\* token sequences, the CSV file as lines of characters.
MockData ==
    (_MOCK_BLANK_BALLOT :> <<"{", "contests", ":", "[", "president", ",", "senate", "]", "}">>)
    @@ (_MOCK_CAST_BALLOT :> <<"{", "contests", ":", "[", "president=x", "]", "}">>)
    @@ (_MOCK_BALLOT_CHECK :> << <<"7", "f", ",", "0", "c">>, <<"e", "2", ",", "9", "a">> >>)

\* json.load of a one-key object whose value is a list of strings.
json_load(text) ==
    LET inner == SubSeq(text, 5, Len(text) - 2)
        items == SelectSeq(inner, LAMBDA tok : tok # ",")
    IN  (text[2] :> items)

RECURSIVE SplitFields(_)
\* One line of csv.reader: the fields between the commas.
SplitFields(line) ==
    LET commas == {i \in 1..Len(line) : line[i] = ","}
    IN  IF commas = {}
        THEN <<line>>
        ELSE LET i == CHOOSE c \in commas : \A d \in commas : c <= d
             IN  <<SubSeq(line, 1, i - 1)>> \o SplitFields(SubSeq(line, i + 1, Len(line)))

\* list(csv.reader(infile))
csv_reader(lines) == [i \in 1..Len(lines) |-> SplitFields(lines[i])]

\* mock_get_cast_ballot: static; called by none of the entry points.
mock_get_cast_ballot == json_load(MockData[_MOCK_CAST_BALLOT])

\* mock_get_ballot_check gone wrong: the voter index counted from one.
mock_get_ballot_check_one_based ==
    [rows |-> csv_reader(MockData[_MOCK_BALLOT_CHECK]), index |-> _MOCK_VOTER_INDEX + 1]

\* mock_get_ballot_check: the rows of the receipts file and the voter index.
mock_get_ballot_check ==
    [rows |-> csv_reader(MockData[_MOCK_BALLOT_CHECK]), index |-> _MOCK_VOTER_INDEX]

\* --------------------------------------------------- the state of a call

\* A request handler that is executing no call.
Idle ==
    [pc |-> "idle", op |-> "", id |-> "", payload |-> EmptyDict, branch |-> "",
     dirCalls |-> 0, ops |-> <<>>, runs |-> <<>>, opOut |-> None, out |-> None,
     seen |-> {}, obs |-> 0]

\* A call as it is entered: pc is where it stands ("run", "done"),
\* branch the arm of `if VtpBackend._MOCK_MODE` it took ("" when it has none),
\* dirCalls the workspace lookups and listings made, ops the operations
\* constructed, runs the run() calls made with their keyword arguments, opOut
\* what the operation gave back, out what the entry point gives its caller,
\* seen the guids already issued when the call began, obs the number of
\* ballots cast in the target workspace when the operation ran.
Call(op, id, payload, branch, pc) ==
    [Idle EXCEPT !.pc = pc, !.op = op, !.id = id, !.payload = payload,
                 !.branch = branch, !.seen = issued]

SessionOps == {"get_empty_ballot", "cast_ballot", "verify_ballot_check", "tally_election_check"}

\* ----------------------------------- imported collaborators (vtp.core, vtp.ops)

\* Common.get_generic_ro_edf_dir(): the read-only election data, no session.
get_generic_ro_edf_dir == [generic_ro |-> TRUE]

\* Common.get_guid_based_edf_dir(guid): the workspace of the guid; fails for a
\* guid that names no workspace.
get_guid_based_edf_dir(guid) ==
    IF guid \in DOMAIN workspaces
    THEN Return([guid |-> guid])
    ELSE Raise("UnknownSession")

\* A workspace as provisioning leaves it: the election's blank ballot context
\* and no ballot cast.
NewWorkspace == [blank |-> <<"president", "senate">>, cast |-> <<>>]

\* The ballots cast so far in the workspace an operation targets.
CastIn(dir) ==
    IF "guid" \in DOMAIN dir /\ dir.guid \in DOMAIN workspaces
    THEN workspaces[dir.guid].cast
    ELSE <<>>

\* Each run below gives [out |-> result or failure, ws |-> the store after it];
\* a failing run leaves the store as it was.
Failed == [out |-> Raise("DelegatedOperationFailure"), ws |-> workspaces]

\* SetupVtpDemoOperation.run(guid_client_store=True): provision the next
\* workspace and give its guid.
SetupVtpDemoOperation_run(dir, kwargs, fail) ==
    LET n == Cardinality(DOMAIN workspaces)
    IN  IF fail \/ n >= MaxSessions
        THEN Failed
        ELSE [out |-> Return([guid |-> GuidNames[n + 1]]),
              ws |-> workspaces @@ (GuidNames[n + 1] :> NewWorkspace)]

\* SetupVtpDemoOperation.get_all_guid_workspaces(): every workspace there is.
SetupVtpDemoOperation_get_all_guid_workspaces == [guids |-> DOMAIN workspaces]

\* CastBallotOperation.run(an_address=..., return_bb=True): the blank ballot of
\* the workspace for the address; the workspace is only read.
CastBallotOperation_run(dir, kwargs, fail) ==
    IF fail
    THEN Failed
    ELSE [out |-> Return([doc |-> [address |-> kwargs.an_address,
                                   contests |-> workspaces[dir.guid].blank]]),
          ws |-> workspaces]

\* AcceptBallotOperation.run(cast_ballot_json=..., merge_contests=True): record
\* the ballot and give the ballot-check rows with the voter's zero-based index.
AcceptBallotOperation_run(dir, kwargs, fail) ==
    IF fail
    THEN Failed
    ELSE LET old == workspaces[dir.guid].cast
             new == Append(old, kwargs.cast_ballot_json)
         IN  [out |-> Return([rows |-> new, index |-> Len(old)]),
              ws |-> [workspaces EXCEPT ![dir.guid].cast = new]]

\* VerifyBallotReceiptOperation.run(receipt_data=..., row=..., cvr=True): the
\* report when the indexed row is the ballot recorded there, MismatchedReceipt
\* otherwise; the workspace is only read.
VerifyBallotReceiptOperation_run(dir, kwargs, fail) ==
    LET cast == workspaces[dir.guid].cast
        i == kwargs.row + 1
    IN  IF fail
        THEN Failed
        ELSE IF i \in DOMAIN kwargs.receipt_data /\ i \in DOMAIN cast
                /\ kwargs.receipt_data[i] = cast[i]
        THEN [out |-> Return([log |-> "receipt verified"]), ws |-> workspaces]
        ELSE [out |-> Raise("MismatchedReceipt"), ws |-> workspaces]

\* TallyContestsOperation.run(contest_uid=..., track_contests=...): the tally
\* report of the workspace; the workspace is only read.
TallyContestsOperation_run(dir, kwargs, fail) ==
    IF fail
    THEN Failed
    ELSE [out |-> Return([report |-> [contest_uid |-> kwargs.contest_uid,
                                      ballots |-> Len(workspaces[dir.guid].cast)]]),
          ws |-> workspaces]

\* ------------------------------------------------ the steps of an entry point

\* `operation = Cls(election_data_dir=..., ...)`: the call with its operation built.
Constructed(c, operation) == [c EXCEPT !.pc = "run", !.ops = Append(@, operation)]

\* An exception leaving the entry point: nothing in backend.py catches any.
Raised(c, failure) == [c EXCEPT !.pc = "done", !.out = failure]

\* `return operation.run(**kwargs)`: one run of the constructed operation, whose
\* result or failure is the entry point's own. r is what the run gave.
Ran(c, kwargs, r) ==
    [c |-> [c EXCEPT !.pc = "done",
                     !.runs = Append(@, [cls |-> c.ops[1].cls, kwargs |-> kwargs]),
                     !.opOut = r.out,
                     !.out = r.out,
                     !.obs = Len(CastIn(c.ops[1].election_data_dir))],
     ws |-> r.ws]

\* get_vote_store_id, lines 78-81.
get_vote_store_id_operation(c) ==
    Constructed(c, [cls |-> "SetupVtpDemoOperation",
                    election_data_dir |-> get_generic_ro_edf_dir,
                    verbosity |-> _VERBOSITY])

\* get_vote_store_id, line 82.
get_vote_store_id_run(c, fail) ==
    LET kwargs == [guid_client_store |-> TRUE]
    IN  Ran(c, kwargs, SetupVtpDemoOperation_run(c.ops[1].election_data_dir, kwargs, fail))

\* get_empty_ballot, lines 97-100.
get_empty_ballot_operation(c) ==
    LET dir == get_guid_based_edf_dir(c.id)
        c1 == [c EXCEPT !.dirCalls = @ + 1]
    IN  IF dir.kind = "raise"
        THEN Raised(c1, dir)
        ELSE Constructed(c1, [cls |-> "CastBallotOperation",
                              election_data_dir |-> dir.val,
                              verbosity |-> _VERBOSITY])

\* get_empty_ballot's run gone wrong: the operation it runs records a ballot
\* for the address instead of only reading the blank one.
get_empty_ballot_run_casting(c, fail) ==
    LET kwargs == [an_address |-> _ADDRESS, return_bb |-> FALSE]
    IN  Ran(c, kwargs,
            AcceptBallotOperation_run(c.ops[1].election_data_dir,
                                      [cast_ballot_json |-> [address |-> _ADDRESS],
                                       merge_contests |-> TRUE],
                                      fail))

\* get_empty_ballot, lines 101-104.
get_empty_ballot_run(c, fail) ==
    LET kwargs == [an_address |-> _ADDRESS, return_bb |-> TRUE]
    IN  Ran(c, kwargs, CastBallotOperation_run(c.ops[1].election_data_dir, kwargs, fail))

\* get_all_guid_workspaces gone wrong: an empty list instead of the listing.
get_all_guid_workspaces_run_empty(c, fail) ==
    [c |-> [c EXCEPT !.pc = "done", !.out = Return([guids |-> {}])],
     ws |-> workspaces]

\* get_all_guid_workspaces, line 111: a static call, no operation is built.
get_all_guid_workspaces_run(c, fail) ==
    [c |-> [c EXCEPT !.pc = "done",
                     !.dirCalls = @ + 1,
                     !.out = Return(SetupVtpDemoOperation_get_all_guid_workspaces)],
     ws |-> workspaces]

\* cast_ballot's lookup gone wrong: an unknown id falls back to the mock
\* ballot check instead of failing.
cast_ballot_operation_fallback(c) ==
    LET dir == get_guid_based_edf_dir(c.id)
        c1 == [c EXCEPT !.dirCalls = @ + 1]
    IN  IF dir.kind = "raise"
        THEN Raised(c1, Return(mock_get_ballot_check))
        ELSE Constructed(c1, [cls |-> "AcceptBallotOperation",
                              election_data_dir |-> dir.val,
                              verbosity |-> _VERBOSITY])

\* cast_ballot gone wrong: the entry point itself refuses a second cast for
\* a session.
cast_ballot_operation_single_use(c) ==
    LET dir == get_guid_based_edf_dir(c.id)
        c1 == [c EXCEPT !.dirCalls = @ + 1]
    IN  IF dir.kind = "raise"
        THEN Raised(c1, dir)
        ELSE IF CastIn(dir.val) # <<>>
        THEN Raised(c1, Raise("AlreadyCast"))
        ELSE Constructed(c1, [cls |-> "AcceptBallotOperation",
                              election_data_dir |-> dir.val,
                              verbosity |-> _VERBOSITY])

\* cast_ballot, lines 137-140.
cast_ballot_operation(c) ==
    LET dir == get_guid_based_edf_dir(c.id)
        c1 == [c EXCEPT !.dirCalls = @ + 1]
    IN  IF dir.kind = "raise"
        THEN Raised(c1, dir)
        ELSE Constructed(c1, [cls |-> "AcceptBallotOperation",
                              election_data_dir |-> dir.val,
                              verbosity |-> _VERBOSITY])

\* cast_ballot's run gone wrong: a failed run is tried once more.
cast_ballot_run_retry(c, fail) ==
    LET kwargs == [cast_ballot_json |-> c.payload, merge_contests |-> TRUE]
        first == Ran(c, kwargs,
                     AcceptBallotOperation_run(c.ops[1].election_data_dir, kwargs, fail))
    IN  IF first.c.out.kind = "raise"
        THEN Ran(first.c, kwargs,
                 AcceptBallotOperation_run(c.ops[1].election_data_dir, kwargs, FALSE))
        ELSE first

\* cast_ballot, lines 141-144.
cast_ballot_run(c, fail) ==
    LET kwargs == [cast_ballot_json |-> c.payload, merge_contests |-> TRUE]
    IN  Ran(c, kwargs, AcceptBallotOperation_run(c.ops[1].election_data_dir, kwargs, fail))

\* verify_ballot_check, lines 159-161.
verify_ballot_check_operation(c) ==
    LET dir == get_guid_based_edf_dir(c.id)
        c1 == [c EXCEPT !.dirCalls = @ + 1]
    IN  IF dir.kind = "raise"
        THEN Raised(c1, dir)
        ELSE Constructed(c1, [cls |-> "VerifyBallotReceiptOperation",
                              election_data_dir |-> dir.val])

\* verify_ballot_check, lines 162-166: the subscripts are evaluated before run
\* is called, and a missing key raises KeyError.
verify_ballot_check_run(c, fail) ==
    IF {"ballot-check", "vote-index"} \subseteq DOMAIN c.payload
    THEN LET kwargs == [receipt_data |-> c.payload["ballot-check"],
                        row |-> c.payload["vote-index"],
                        cvr |-> TRUE]
         IN  Ran(c, kwargs,
                 VerifyBallotReceiptOperation_run(c.ops[1].election_data_dir, kwargs, fail))
    ELSE [c |-> Raised(c, Raise("KeyError")), ws |-> workspaces]

\* tally_election_check, lines 181-184: the workspace lookup comes first, then
\* the ["verbosity"] subscript, then the constructor.
tally_election_check_operation(c) ==
    LET dir == get_guid_based_edf_dir(c.id)
        c1 == [c EXCEPT !.dirCalls = @ + 1]
    IN  IF dir.kind = "raise"
        THEN Raised(c1, dir)
        ELSE IF "verbosity" \notin DOMAIN c.payload
        THEN Raised(c1, Raise("KeyError"))
        ELSE Constructed(c1, [cls |-> "TallyContestsOperation",
                              election_data_dir |-> dir.val,
                              verbosity |-> c.payload["verbosity"]])

\* tally_election_check, lines 185-188.
tally_election_check_run(c, fail) ==
    IF {"contest-uids", "track-contests"} \subseteq DOMAIN c.payload
    THEN LET kwargs == [contest_uid |-> c.payload["contest-uids"],
                        track_contests |-> c.payload["track-contests"]]
         IN  Ran(c, kwargs,
                 TallyContestsOperation_run(c.ops[1].election_data_dir, kwargs, fail))
    ELSE [c |-> Raised(c, Raise("KeyError")), ws |-> workspaces]

\* ------------------------------------------------------------------ actions

Init ==
    /\ _MOCK_MODE \in BOOLEAN  \* line 51 ships False; a mock deployment sets it before serving
    /\ workspaces = [g \in {} |-> NewWorkspace]
    /\ thread = [t \in Threads |-> Idle]
    /\ ncalls = 0
    /\ issued = {}
    /\ blankSeen = [id \in SessionIds |-> {}]
    /\ servedBy = [id \in SessionIds |-> {}]

\* A new call, which stands as c after its first step, is taken up by handler
\* t: the first idle one (the handlers are interchangeable).
Begin(t, c) ==
    /\ thread[t].pc = "idle"
    /\ \A u \in Threads : u < t => thread[u].pc # "idle"
    /\ ncalls < MaxCalls
    /\ thread' = [thread EXCEPT ![t] = c]
    /\ ncalls' = ncalls + 1

\* The arm of `if VtpBackend._MOCK_MODE` the call takes.
Branch == IF _MOCK_MODE THEN "mock" ELSE "live"

\* get_vote_store_id gone wrong: the live arm switches the backend to mock
\* mode for the calls that follow.
get_vote_store_id_sets_mock(t) ==
    /\ IF _MOCK_MODE
       THEN /\ Begin(t, Raised(Call("get_vote_store_id", "", EmptyDict, "mock", "done"),
                               Return([guid |-> _MOCK_GUID])))
            /\ UNCHANGED _MOCK_MODE
       ELSE /\ Begin(t, get_vote_store_id_operation(
                            Call("get_vote_store_id", "", EmptyDict, "live", "run")))
            /\ _MOCK_MODE' = TRUE
    /\ UNCHANGED <<workspaces, issued, blankSeen, servedBy>>

\* Endpoint #1, lines 71-81: the mock arm returns at once, the live arm builds
\* the provisioning operation.
get_vote_store_id(t) ==
    /\ IF _MOCK_MODE
       THEN Begin(t, Raised(Call("get_vote_store_id", "", EmptyDict, "mock", "done"),
                            Return([guid |-> _MOCK_GUID])))
       ELSE Begin(t, get_vote_store_id_operation(
                         Call("get_vote_store_id", "", EmptyDict, "live", "run")))
    /\ UNCHANGED <<_MOCK_MODE, workspaces, issued, blankSeen, servedBy>>

\* Endpoint #2, lines 85-95.
get_empty_ballot(t, vote_store_id) ==
    LET doc == [doc |-> json_load(MockData[_MOCK_BLANK_BALLOT])]
    IN  /\ IF _MOCK_MODE
           THEN /\ Begin(t, Raised(Call("get_empty_ballot", vote_store_id, EmptyDict,
                                        "mock", "done"),
                                   Return(doc)))
                /\ blankSeen' = [blankSeen EXCEPT ![vote_store_id] = @ \cup {doc}]
           ELSE /\ Begin(t, get_empty_ballot_operation(
                                Call("get_empty_ballot", vote_store_id, EmptyDict,
                                     "live", "run")))
                /\ UNCHANGED blankSeen
        /\ servedBy' = [servedBy EXCEPT ![vote_store_id] = @ \cup {Branch}]
        /\ UNCHANGED <<_MOCK_MODE, workspaces, issued>>

\* Lines 107-111: no mode branch; the listing is asked for in either mode.
get_all_guid_workspaces(t) ==
    /\ Begin(t, Call("get_all_guid_workspaces", "", EmptyDict, "", "run"))
    /\ UNCHANGED <<_MOCK_MODE, workspaces, issued, blankSeen, servedBy>>

\* cast_ballot gone wrong: no mock arm, the live arm is taken in either mode.
cast_ballot_no_mock_arm(t, vote_store_id, ballot) ==
    /\ Begin(t, cast_ballot_operation(
                    Call("cast_ballot", vote_store_id, ballot, "live", "run")))
    /\ servedBy' = [servedBy EXCEPT ![vote_store_id] = @ \cup {Branch}]
    /\ UNCHANGED <<_MOCK_MODE, workspaces, issued, blankSeen>>

\* Endpoint #3, lines 128-135.
cast_ballot(t, vote_store_id, ballot) ==
    /\ IF _MOCK_MODE
       THEN /\ Begin(t, Raised(Call("cast_ballot", vote_store_id, ballot, "mock", "done"),
                               Return(mock_get_ballot_check)))
            /\ blankSeen' = [blankSeen EXCEPT ![vote_store_id] = {}]
       ELSE /\ Begin(t, cast_ballot_operation(
                            Call("cast_ballot", vote_store_id, ballot, "live", "run")))
            /\ UNCHANGED blankSeen
    /\ servedBy' = [servedBy EXCEPT ![vote_store_id] = @ \cup {Branch}]
    /\ UNCHANGED <<_MOCK_MODE, workspaces, issued>>

\* Endpoint #4, lines 147-157.
verify_ballot_check(t, vote_store_id, incoming_json) ==
    /\ IF _MOCK_MODE
       THEN Begin(t, Raised(Call("verify_ballot_check", vote_store_id, incoming_json,
                                 "mock", "done"),
                            Return([log |-> _MOCK_VERIFY_BALLOT_RECEIPT_LOG])))
       ELSE Begin(t, verify_ballot_check_operation(
                         Call("verify_ballot_check", vote_store_id, incoming_json,
                              "live", "run")))
    /\ servedBy' = [servedBy EXCEPT ![vote_store_id] = @ \cup {Branch}]
    /\ UNCHANGED <<_MOCK_MODE, workspaces, issued, blankSeen>>

\* Endpoint #5, lines 169-179.
tally_election_check(t, vote_store_id, incoming_json) ==
    /\ IF _MOCK_MODE
       THEN Begin(t, Raised(Call("tally_election_check", vote_store_id, incoming_json,
                                 "mock", "done"),
                            Return([log |-> _MOCK_TALLY_CONTESTS_LOG])))
       ELSE Begin(t, tally_election_check_operation(
                         Call("tally_election_check", vote_store_id, incoming_json,
                              "live", "run")))
    /\ servedBy' = [servedBy EXCEPT ![vote_store_id] = @ \cup {Branch}]
    /\ UNCHANGED <<_MOCK_MODE, workspaces, issued, blankSeen>>

\* The return statement of the live arm the call is in.
RunOf(c, fail) ==
    CASE c.op = "get_vote_store_id" -> get_vote_store_id_run(c, fail)
      [] c.op = "get_empty_ballot" -> get_empty_ballot_run(c, fail)
      [] c.op = "get_all_guid_workspaces" -> get_all_guid_workspaces_run(c, fail)
      [] c.op = "cast_ballot" -> cast_ballot_run(c, fail)
      [] c.op = "verify_ballot_check" -> verify_ballot_check_run(c, fail)
      [] c.op = "tally_election_check" -> tally_election_check_run(c, fail)

\* The blank ballots handed out for each id after a step of call c that left
\* it as d: a blank ballot produced is added, a cast that ran clears the id's.
BlankSeenAfter(c, d) ==
    IF c.op = "get_empty_ballot" /\ d.out.kind = "return"
    THEN [blankSeen EXCEPT ![c.id] = @ \cup {d.out.val}]
    ELSE IF c.op = "cast_ballot" /\ d.runs # <<>>
    THEN [blankSeen EXCEPT ![c.id] = {}]
    ELSE blankSeen

\* Handler t evaluates the run arguments and runs the operation, which may fail
\* (the `return operation.run(...)` of the call's entry point).
Run(t) ==
    \E fail \in BOOLEAN :
        LET r == RunOf(thread[t], fail)
        IN  /\ thread[t].pc = "run"
            /\ thread' = [thread EXCEPT ![t] = r.c]
            /\ workspaces' = r.ws
            /\ blankSeen' = BlankSeenAfter(thread[t], r.c)
            /\ UNCHANGED <<_MOCK_MODE, ncalls, issued, servedBy>>

\* The caller of handler t receives the result (or the exception).
ReturnToCaller(t) ==
    /\ thread[t].pc = "done"
    /\ issued' = IF thread[t].op = "get_vote_store_id" /\ thread[t].out.kind = "return"
                 THEN issued \cup {thread[t].out.val.guid}
                 ELSE issued
    /\ thread' = [thread EXCEPT ![t] = Idle]
    /\ UNCHANGED <<_MOCK_MODE, workspaces, ncalls, blankSeen, servedBy>>

Next ==
    \E t \in Threads :
        \/ get_vote_store_id(t)
        \/ \E id \in SessionIds : get_empty_ballot(t, id)
        \/ get_all_guid_workspaces(t)
        \/ \E id \in SessionIds, ballot \in CastBallots : cast_ballot(t, id, ballot)
        \/ \E id \in SessionIds, p \in VerifyPayloads : verify_ballot_check(t, id, p)
        \/ \E id \in SessionIds, p \in TallyPayloads : tally_election_check(t, id, p)
        \/ Run(t)
        \/ ReturnToCaller(t)

Spec == Init /\ [][Next]_vars

\* ------------------------------------------------------------------ claims

\* The five numbered endpoints.
Endpoints == SessionOps \cup {"get_vote_store_id"}

\* The payload keys an endpoint subscripts.
RequiredKeys(op) ==
    CASE op = "verify_ballot_check" -> {"ballot-check", "vote-index"}
      [] op = "tally_election_check" -> {"verbosity", "contest-uids", "track-contests"}
      [] OTHER -> {}

\* The operation class an endpoint's live arm builds.
OperationClass(op) ==
    CASE op = "get_vote_store_id" -> "SetupVtpDemoOperation"
      [] op = "get_empty_ballot" -> "CastBallotOperation"
      [] op = "cast_ballot" -> "AcceptBallotOperation"
      [] op = "verify_ballot_check" -> "VerifyBallotReceiptOperation"
      [] op = "tally_election_check" -> "TallyContestsOperation"

\* C1: in mock mode a call of any of the five endpoints has returned as soon
\* as it is entered, having made no workspace lookup and built and run no
\* operation, whatever vote_store_id it was given; no workspace ever exists.
C1_MockModeBypass ==
    _MOCK_MODE =>
        /\ workspaces = [g \in {} |-> NewWorkspace]
        /\ \A t \in Threads :
               thread[t].op \in Endpoints =>
                   /\ thread[t].pc = "done"
                   /\ thread[t].out.kind = "return"
                   /\ thread[t].dirCalls = 0
                   /\ thread[t].ops = <<>>
                   /\ thread[t].runs = <<>>

\* C1's case: mock mode, a cast_ballot and a tally_election_check for guids
\* that were never issued have both returned.
C1_Witness ==
    /\ _MOCK_MODE
    /\ \E t1, t2 \in Threads :
           /\ thread[t1].op = "cast_ballot" /\ thread[t1].pc = "done"
           /\ thread[t2].op = "tally_election_check" /\ thread[t2].pc = "done"
           /\ thread[t1].id \in Guids \ issued
           /\ thread[t2].id \in Guids \ issued

\* An operation built for the workspace of id that has not finished its run.
Holding(t, id) ==
    /\ thread[t].pc = "run"
    /\ thread[t].ops # <<>>
    /\ thread[t].ops[1].election_data_dir = [guid |-> id]

\* C2: in live mode no cast_ballot holds an operation on a workspace while
\* another cast_ballot, get_empty_ballot, verify_ballot_check or
\* tally_election_check call holds one on the same workspace.
C2_CastSerializedPerSession ==
    \A t1, t2 \in Threads, id \in Guids :
        (t1 # t2 /\ Holding(t1, id) /\ Holding(t2, id)) =>
            thread[t1].op # "cast_ballot"

\* The outcome C3 asks of a call: UnknownSession from the lookup, no operation
\* built, none run.
RejectedAtResolution(c) ==
    /\ c.out = Raise("UnknownSession")
    /\ c.dirCalls = 1
    /\ c.ops = <<>>
    /\ c.runs = <<>>

\* C3 as claimed: a live call of a session endpoint, past its workspace
\* lookup, for an id that no get_vote_store_id call has returned, was rejected
\* at resolution.
C3_Original ==
    \A t \in Threads :
        (/\ thread[t].branch = "live"
         /\ thread[t].op \in SessionOps
         /\ thread[t].pc \in {"run", "done"}
         /\ thread[t].id \notin issued)
            => RejectedAtResolution(thread[t])

\* C3, state part: the same for an id for which no get_vote_store_id call has
\* provisioned a workspace; and a mock call never ends in UnknownSession.
C3_Rejected ==
    \A t \in Threads :
        /\ (/\ thread[t].branch = "live"
            /\ thread[t].op \in SessionOps
            /\ thread[t].pc \in {"run", "done"}
            /\ thread[t].id \notin DOMAIN workspaces)
               => RejectedAtResolution(thread[t])
        /\ thread[t].branch = "mock" => thread[t].out # Raise("UnknownSession")

\* C3, step part: the step that rejects a call changes no workspace.
C3_NoWorkspaceChange ==
    \A t \in Threads :
        (thread[t].pc = "idle" /\ thread'[t].out = Raise("UnknownSession"))
            => workspaces' = workspaces

\* C3 (amended): in live mode, for every vote_store_id for which no
\* get_vote_store_id call has yet provisioned a workspace, each session
\* endpoint fails with UnknownSession at the lookup, before any operation is
\* built or run and without changing any workspace; in mock mode no call
\* raises UnknownSession.
C3_UnknownSession == [](C3_Rejected) /\ [][C3_NoWorkspaceChange]_vars

\* C3's case: a live cast_ballot for a guid without workspace has been
\* rejected while another session's workspace exists.
C3_Witness ==
    \E t \in Threads :
        /\ thread[t].branch = "live"
        /\ thread[t].op = "cast_ballot"
        /\ thread[t].pc = "done"
        /\ thread[t].id \in Guids \ DOMAIN workspaces
        /\ thread[t].out = Raise("UnknownSession")
        /\ DOMAIN workspaces # {}

\* What C4 says each endpoint returns in mock mode, written out: the guid, the
\* parsed blank-ballot fixture, the parsed receipts fixture with index 26, and
\* the two logs.
C4_Fixed(op) ==
    CASE op = "get_vote_store_id" -> [guid |-> "01d963fd74100ee3f36428740a8efd8afd781839"]
      [] op = "get_empty_ballot" -> [doc |-> ("contests" :> <<"president", "senate">>)]
      [] op = "cast_ballot" ->
             [rows |-> << << <<"7", "f">>, <<"0", "c">> >>, << <<"e", "2">>, <<"9", "a">> >> >>,
              index |-> 26]
      [] op = "verify_ballot_check" -> [log |-> "Hello World"]
      [] op = "tally_election_check" -> [log |-> "Good Morning"]

\* C4: in mock mode the result of every call of the five endpoints is the
\* fixed value of its endpoint, whatever the vote_store_id, the payload and
\* the calls made before.
C4_MockResultsFixed ==
    \A t \in Threads :
        (_MOCK_MODE /\ thread[t].op \in Endpoints) =>
            thread[t].out = Return(C4_Fixed(thread[t].op))

\* C4's case: mock mode, two cast_ballot calls with different ids and
\* different ballots, after earlier calls, have both returned.
C4_Witness ==
    /\ _MOCK_MODE
    /\ ncalls = MaxCalls
    /\ \E t1, t2 \in Threads :
           /\ thread[t1].op = "cast_ballot" /\ thread[t1].pc = "done"
           /\ thread[t2].op = "cast_ballot" /\ thread[t2].pc = "done"
           /\ thread[t1].id # thread[t2].id
           /\ thread[t1].payload # thread[t2].payload

\* The guids get_vote_store_id calls have been given by provisioning: those
\* returned to a caller and those about to be.
Provisioned ==
    issued \cup {thread[t].out.val.guid : t \in
                    {u \in Threads : /\ thread[u].op = "get_vote_store_id"
                                     /\ thread[u].pc = "done"
                                     /\ thread[u].out.kind = "return"}}

\* C5: in live mode the listing a get_all_guid_workspaces call returns holds
\* every guid that a get_vote_store_id call had returned before the listing
\* call began, and holds only guids that get_vote_store_id calls were given.
C5_EnumerateIncludesIssued ==
    \A t \in Threads :
        (/\ ~_MOCK_MODE
         /\ thread[t].op = "get_all_guid_workspaces"
         /\ thread[t].pc = "done")
            => /\ thread[t].out.kind = "return"
               /\ thread[t].seen \subseteq thread[t].out.val.guids
               /\ thread[t].out.val.guids \subseteq Provisioned

\* C5's case: a listing call that began after one guid was returned, and
\* overlapped the issuance of a second, lists both.
C5_Witness ==
    \E t \in Threads :
        /\ ~_MOCK_MODE
        /\ thread[t].op = "get_all_guid_workspaces"
        /\ thread[t].pc = "done"
        /\ thread[t].seen # {}
        /\ thread[t].out.val.guids \ thread[t].seen # {}

\* C6, state part: every id has been served by at most one mode branch.
C6_OneBranchPerSession == \A id \in SessionIds : Cardinality(servedBy[id]) <= 1

\* C6: no step of any entry point changes _MOCK_MODE, and all the calls made
\* for one vote_store_id took the same arm of the mode branch.
C6_ModeFixed == [](C6_OneBranchPerSession) /\ [][_MOCK_MODE' = _MOCK_MODE]_vars

\* C6's case: a session issued, cast into and tallied, all in live mode.
C6_Witness ==
    \E t \in Threads :
        /\ thread[t].op = "tally_election_check"
        /\ thread[t].pc = "done"
        /\ thread[t].out.kind = "return"
        /\ thread[t].id \in issued \cap DOMAIN workspaces
        /\ workspaces[thread[t].id].cast # <<>>
        /\ servedBy[thread[t].id] = {"live"}

\* C7, state part: the blank ballots handed out for one id since the last
\* cast_ballot for it are all the same document.
C7_SameDocument == \A id \in SessionIds : Cardinality(blankSeen[id]) <= 1

\* C7, step part: the run of get_empty_ballot's operation changes no workspace.
C7_WorkspaceKept ==
    \A t \in Threads :
        (thread[t].op = "get_empty_ballot" /\ thread[t].pc = "run")
            => (thread'[t] = thread[t] \/ workspaces' = workspaces)

\* C7: two get_empty_ballot calls for the same vote_store_id with no
\* cast_ballot for it in between return the same document, in live and in mock
\* mode, and the call leaves the workspaces as it found them.
C7_BlankBallotIdempotent == [](C7_SameDocument) /\ [][C7_WorkspaceKept]_vars

\* C7's case: two live get_empty_ballot calls for one session have both
\* returned a document.
C7_Witness ==
    \E t1, t2 \in Threads :
        /\ t1 # t2
        /\ thread[t1].op = "get_empty_ballot" /\ thread[t2].op = "get_empty_ballot"
        /\ thread[t1].branch = "live"
        /\ thread[t1].id = thread[t2].id
        /\ thread[t1].pc = "done" /\ thread[t2].pc = "done"
        /\ thread[t1].out.kind = "return" /\ thread[t2].out.kind = "return"

\* A finished live call of a session endpoint.
LiveSessionCall(c) == c.branch = "live" /\ c.op \in SessionOps /\ c.pc = "done"

\* The call ran the operation of its endpoint once and gives what it gave.
Forwarded(c) ==
    /\ Len(c.ops) = 1
    /\ c.ops[1].cls = OperationClass(c.op)
    /\ Len(c.runs) = 1
    /\ c.runs[1].cls = OperationClass(c.op)
    /\ c.out = c.opOut

\* C8: a live call of a session endpoint for a session issued before the call
\* began is forwarded to its operation, whatever was or was not called for the
\* session before; the only call not forwarded is one whose payload lacks a
\* key the endpoint subscripts, which ends in KeyError.
C8_NoLifecycleEnforced ==
    \A t \in Threads :
        (LiveSessionCall(thread[t]) /\ thread[t].id \in thread[t].seen) =>
            IF RequiredKeys(thread[t].op) \subseteq DOMAIN thread[t].payload
            THEN Forwarded(thread[t])
            ELSE thread[t].out = Raise("KeyError")

\* C8's case: for one issued session whose blank ballot was never asked
\* for, a verify_ballot_check was forwarded when no ballot had been cast, and
\* a cast_ballot was forwarded and accepted.
C8_Witness ==
    \E t1, t2 \in Threads :
        /\ LiveSessionCall(thread[t1]) /\ LiveSessionCall(thread[t2])
        /\ thread[t1].id = thread[t2].id
        /\ thread[t1].id \in thread[t1].seen
        /\ blankSeen[thread[t1].id] = {}
        /\ thread[t1].op = "verify_ballot_check"
        /\ Forwarded(thread[t1]) /\ thread[t1].obs = 0
        /\ thread[t2].op = "cast_ballot"
        /\ Forwarded(thread[t2])
        /\ thread[t2].out.kind = "return"

\* The keyword arguments of the run are the caller's payload fields.
PayloadUnchanged(c) ==
    CASE c.op = "cast_ballot" -> c.runs[1].kwargs.cast_ballot_json = c.payload
      [] c.op = "verify_ballot_check" ->
             /\ c.runs[1].kwargs.receipt_data = c.payload["ballot-check"]
             /\ c.runs[1].kwargs.row = c.payload["vote-index"]
      [] c.op = "tally_election_check" ->
             /\ c.ops[1].verbosity = c.payload["verbosity"]
             /\ c.runs[1].kwargs.contest_uid = c.payload["contest-uids"]
             /\ c.runs[1].kwargs.track_contests = c.payload["track-contests"]
      [] OTHER -> TRUE

C10_EnumerateBypassedInMockMode ==
    \A t \in Threads :
        (_MOCK_MODE /\ thread[t].op = "get_all_guid_workspaces" /\ thread[t].pc = "done")
            => thread[t].branch = "mock" /\ thread[t].dirCalls = 0

====
